---- MODULE Spec2Model ----
(***************************************************************************)
(* netooze-api: the job API of src/netooze-api.py.                         *)
(*                                                                         *)
(* Three route handlers (getjob, addjob, deljob) run over two shared       *)
(* collaborators: the Elasticsearch index `es` (one doc_type per user) and *)
(* the Kafka topic `topic`.  A handler is a sequence of calls to them; the *)
(* WSGI server runs several handlers at once, so every call to es or to    *)
(* the topic is one atomic step and the steps of different requests        *)
(* interleave.  What a handler does before its first call, and between two *)
(* calls, touches its own locals only and is part of the step of the call  *)
(* that follows.  Every call to es may raise ElasticsearchException and    *)
(* the producer may raise KafkaException.                                  *)
(***************************************************************************)
EXTENDS Integers, Sequences, FiniteSets, TLC

\* ------------------------------------------------------------------ bounds
\* Number of requests the server handles at the same time.
NProcs == 2
\* Number of requests received over a run.
MaxReq == 2

Procs == 1..NProcs
Users == {"ann", "bob"}

\* ------------------------------------------------------------ source names
\* STATUS (lines 19-22)
STATUS == [Q |-> "queued", P |-> "processing", F |-> "finished"]
STATUS_values == {STATUS.Q, STATUS.P, STATUS.F}

\* reqfields (line 114), in the order the loop of line 116 visits them
reqfields == <<"client", "host", "desc", "query">>

\* --------------------------------------------------------- request bodies
\* A JSON body is a function from the keys it holds to their values; a value
\* is a JSON string or a JSON object.
Str(s) == [type |-> "str", v |-> s]
Obj(s) == [type |-> "dict", v |-> s]

\* What json.loads yields: <<"ok", value>> for a string that holds JSON,
\* <<"error">> for any other string (ValueError) and for a value that is not
\* a string (TypeError).  A parsed object is a tuple of its key/value pairs.
JsonText == [t \in {"{\"q\": 1}", "{\"o\": 1}", "{}"} |->
               CASE t = "{\"q\": 1}" -> <<"q", 1>>
                 [] t = "{\"o\": 1}" -> <<"o", 1>>
                 [] OTHER -> <<>>]

json_loads(x) ==
    IF x.type = "str" /\ x.v \in DOMAIN JsonText
    THEN <<"ok", JsonText[x.v]>>
    ELSE <<"error">>

\* The value each key takes when it is present.
FieldValues(k) ==
    CASE k = "client"  -> {Str("c1")}
      [] k = "host"    -> {Str("h1")}
      [] k = "desc"    -> {Str("d1")}
      [] k = "query"   -> {Str("{\"q\": 1}")}
      [] k = "options" -> {Str("{\"o\": 1}")}

Required == {reqfields[i] : i \in 1..Len(reqfields)}

BodyOf(keys) == [k \in keys |-> CHOOSE x \in FieldValues(k) : TRUE]

\* The bodies a client posts: the full body, the bodies that lack one required
\* key, two of them or all, and the full body with options or a query that
\* json.loads rejects (text that is not JSON, a value that is not a string).
Bodies ==
    {BodyOf(Required \ ks) : ks \in {{}, {"client"}, {"host"}, {"desc"}, {"query"},
                                      {"host", "query"}, Required}}
    \cup {[BodyOf(Required \cup {"options"}) EXCEPT !["options"] = Str("fast")],
          [BodyOf(Required) EXCEPT !["query"] = Str("select *")],
          [BodyOf(Required) EXCEPT !["query"] = Obj("q")]}

NoData == BodyOf({})

\* ------------------------------------------------------------------ state
VARIABLES
    es,        \* the documents of the index: the jobs of every user
    topic,     \* the Kafka topic: the messages produced so far, in order
    req,       \* per server slot: the request it is handling and its locals
    response,  \* the response the last step sent, NoResponse if it sent none
    now,       \* the clock datetime.now() reads
    started,   \* requests received so far
    offset,    \* number of topic messages the worker has consumed
    created,   \* history: the jobs es.create has accepted, in order
    deleted    \* history: the (user, id) deljob has answered success for

vars == <<es, topic, req, response, now, started, offset, created, deleted>>

NoJob == [id |-> 0, user |-> "", timestamp |-> 0, client |-> "", host |-> "",
          desc |-> "", status |-> "", query |-> <<>>, notes |-> "",
          priority |-> 0, options |-> <<>>]

\* A request: the handler the route calls, and its inputs.
Request(op, user, data, path) ==
    [op |-> op, pc |-> "begin", user |-> user, data |-> data, path |-> path,
     esid |-> 0, job |-> NoJob, hid |-> <<>>]

Idle == [Request("none", "", NoData, <<>>) EXCEPT !.pc = "idle"]

NoResponse == [op |-> "none", user |-> "", data |-> NoData, path |-> <<>>,
               code |-> 0, message |-> "", result |-> <<>>, raised |-> "none"]

\* -------------------------------------------------------------- ID codec
\* Hashids(salt=user).encode(n): a token that depends on the salt and on n.
encode(salt, n) == "h" \o ToString(n) \o "-" \o salt

\* Hashids(salt=user).decode(token): the numbers the token encodes under the
\* salt, the empty tuple when it encodes none.
decode(salt, token) ==
    IF \E n \in 0..(MaxReq + 1) : encode(salt, n) = token
    THEN <<CHOOSE n \in 0..(MaxReq + 1) : encode(salt, n) = token>>
    ELSE <<>>

\* The tokens a client may send: those of every user, and one that no salt
\* decodes.
Tokens == {encode(u, n) : u \in Users, n \in 1..(MaxReq - 1)} \cup {"bogus"}

\* ---------------------------------------------------------- store client
\* es.search(index, doc_type=user, body={"query": {"match": {"id": n}}})
MatchId(user, n) == {d \in es : d.user = user /\ d.id = n}

\* es.search(..., {"query": {"match": {"status": s}}})
MatchStatus(user, s) == {d \in es : d.user = user /\ d.status = s}

\* Wildcard without doc_type=user: the jobs of every user.
Wildcard_AllTypes(user) == es

\* es.search(..., {"query": {"wildcard": {"status": "*"}}})
Wildcard(user) == {d \in es : d.user = user}

\* The max aggregation on id: <<>> for None, <<m>> for a value.
max_id(user) ==
    LET ids == {d.id : d \in Wildcard(user)}
    IN  IF ids = {} THEN <<>> ELSE <<CHOOSE m \in ids : \A i \in ids : i <= m>>

\* ------------------------------------------------------------- responses
\* The response to request r.
Answer(r, code, message, result, raised) ==
    [op |-> r.op, user |-> r.user, data |-> r.data, path |-> r.path,
     code |-> code, message |-> message, result |-> result, raised |-> raised]

\* raise APIError(code, message): the handler ends with that response.
APIError(r, code, message, raised) == Answer(r, code, message, <<>>, raised)

\* An exception no handler catches: Bottle answers 500 (custom500).
Uncaught(r, raised) == APIError(r, 500, "this is a 500", raised)

\* Slot p is free and the server receives a request: the slots are alike, and
\* a request takes the first free one.
Receive(p) ==
    /\ req[p].pc = "idle"
    /\ \A q \in Procs : q < p => req[q].pc # "idle"
    /\ started < MaxReq
    /\ started' = started + 1

\* The handler of slot p goes on with locals r: no response yet.
Continue(p, r) ==
    /\ req' = [req EXCEPT ![p] = r]
    /\ response' = NoResponse

\* The handler of slot p ends with response a.
End(p, a) ==
    /\ req' = [req EXCEPT ![p] = Idle]
    /\ response' = a

\* ----------------------------------------------------------------- addjob
\* Missing with the loop of line 116 running to its end: the last field the
\* body lacks.
Missing_Last(data) ==
    LET absent == {i \in 1..4 : <<"client", "host", "desc", "query">>[i] \notin DOMAIN data}
    IN  IF absent = {} THEN ""
        ELSE <<"client", "host", "desc", "query">>[CHOOSE i \in absent : \A j \in absent : i >= j]

\* The first required field the body lacks, "" when it has them all
\* (lines 116-118).
Missing(data) ==
    LET absent == {i \in 1..Len(reqfields) : reqfields[i] \notin DOMAIN data}
    IN  IF absent = {} THEN ""
        ELSE reqfields[CHOOSE i \in absent : \A j \in absent : i <= j]

\* POST /v1/jobs/<user>, lines 113-118: a required field is absent.
AddjobReject(p, user, data) ==
    /\ Receive(p)
    /\ Missing(data) # ""
    /\ End(p, APIError(Request("addjob", user, data, <<>>), 422,
                  "Missing required field: " \o Missing(data), "none"))
    /\ UNCHANGED <<es, topic, now, offset, created, deleted>>

\* NewJob with a status other than STATUS.Q.
NewJob_Started(user, esid, timestamp, data, query, options) ==
    [id |-> esid, user |-> user, timestamp |-> timestamp,
     client |-> data["client"].v, host |-> data["host"].v,
     desc |-> data["desc"].v, status |-> "processing", query |-> query,
     notes |-> "", priority |-> 0, options |-> options]

\* The job of lines 128-142, given the values json.loads returned.
NewJob(user, esid, timestamp, data, query, options) ==
    [id |-> esid, user |-> user, timestamp |-> timestamp,
     client |-> data["client"].v, host |-> data["host"].v,
     desc |-> data["desc"].v, status |-> STATUS.Q, query |-> query,
     notes |-> "", priority |-> 0, options |-> options]

\* Lines 120-126: the id the new job gets.
NextId(user) ==
    LET maxid == IF max_id(user) = <<>> THEN 0 ELSE max_id(user)[1]
    IN  maxid + 1

\* POST /v1/jobs/<user>, lines 113-142: the body has the required fields, the
\* max-id search returns and the job is built; json.loads may raise, which
\* nothing catches.
AddjobSearch(p, user, data) ==
    /\ Receive(p)
    /\ Missing(data) = ""
    /\ LET r       == Request("addjob", user, data, <<>>)
           esid    == NextId(user)
           query   == json_loads(data["query"])
           options == IF "options" \in DOMAIN data
                      THEN json_loads(data["options"])
                      ELSE <<"ok", <<>>>>
       IN  IF query[1] = "error" \/ options[1] = "error"
           THEN /\ End(p, Uncaught(r, "json"))
                /\ UNCHANGED now
           ELSE /\ now' = now + 1
                /\ Continue(p, [r EXCEPT !.pc = "add_create", !.esid = esid,
                                   !.job = NewJob(user, esid, now + 1, data,
                                                  query[2], options[2])])
    /\ UNCHANGED <<es, topic, offset, created, deleted>>

\* Lines 122, 147-148: the max-id search raises.  The message carries the
\* exception's text.
AddjobSearchFails(p, user, data) ==
    /\ Receive(p)
    /\ Missing(data) = ""
    /\ End(p, APIError(Request("addjob", user, data, <<>>), 503,
                  "Connection to Elasticsearch failed ConnectionError", "es"))
    /\ UNCHANGED <<es, topic, now, offset, created, deleted>>

\* CreateAccepts for es.index in the place of es.create: an existing id is no
\* obstacle.
CreateAccepts_Index(user, esid) == TRUE

\* es.create(index, doc_type=user, body=job, id=esid) accepts the document
\* when the user's collection holds none with that id.
CreateAccepts(user, esid) == MatchId(user, esid) = {}

\* Lines 144-151: the create is accepted (res['created']).
AddjobCreate(p) ==
    /\ req[p].pc = "add_create"
    /\ CreateAccepts(req[p].user, req[p].esid)
    /\ es' = es \cup {req[p].job}
    /\ created' = Append(created, req[p].job)
    /\ Continue(p, [req[p] EXCEPT !.pc = "add_produce"])
    /\ UNCHANGED <<topic, now, started, offset, deleted>>

\* AddjobCreateFails with the check of res['created'] lost: the handler goes
\* on to produce although the create raised.
AddjobCreateFails_Produces(p) ==
    /\ req[p].pc = "add_create"
    /\ Continue(p, [req[p] EXCEPT !.pc = "add_produce"])
    /\ UNCHANGED <<es, topic, now, started, offset, created, deleted>>

\* AddjobCreateFails with a create that raises after it wrote the document.
AddjobCreateFails_Writes(p) ==
    /\ req[p].pc = "add_create"
    /\ es' = es \cup {req[p].job}
    /\ End(p, APIError(req[p], 503,
                  "Connection to Elasticsearch failed ConnectionError", "es"))
    /\ UNCHANGED <<topic, now, started, offset, created, deleted>>

\* Lines 145, 147-148: the create raises: the store is unreachable, or it
\* holds a document with this id already (ConflictError, which is an
\* ElasticsearchException).
AddjobCreateFails(p) ==
    /\ req[p].pc = "add_create"
    /\ \/ End(p, APIError(req[p], 503,
                     "Connection to Elasticsearch failed ConnectionError", "es"))
       \/ /\ ~CreateAccepts(req[p].user, req[p].esid)
          /\ End(p, APIError(req[p], 503,
                        "Connection to Elasticsearch failed ConflictError", "es"))
    /\ UNCHANGED <<es, topic, now, started, offset, created, deleted>>

\* kafkaid = '{}:{}'.format(user, esid) (line 153)
kafkaid(user, esid) == user \o ":" \o ToString(esid)

\* Lines 152-170: the message is produced and the token returned.
AddjobProduce(p) ==
    /\ req[p].pc = "add_produce"
    /\ topic' = Append(topic, kafkaid(req[p].user, req[p].esid))
    /\ End(p, Answer(req[p], 201, "",
                  [id |-> encode(req[p].user, req[p].esid),
                   desc |-> req[p].data["desc"].v,
                   status |-> STATUS.Q], "none"))
    /\ UNCHANGED <<es, now, started, offset, created, deleted>>

\* Lines 154-160: the producer raises KafkaException.
AddjobProduceFails(p) ==
    /\ req[p].pc = "add_produce"
    /\ End(p, APIError(req[p], 502, "Kafka producer failed to insert into", "kafka"))
    /\ UNCHANGED <<es, topic, now, started, offset, created, deleted>>

\* ----------------------------------------------------------------- deljob
\* DELETE /v1/jobs/<user>/<jobid>, lines 175-185, 191-192: the token is
\* decoded and the search for the job returns.
DeljobSearch(p, user, jobid) ==
    /\ Receive(p)
    /\ LET r   == Request("deljob", user, NoData, <<jobid>>)
           hid == decode(user, jobid)
       IN  IF Len(hid) = 0
           THEN End(p, APIError(r, 404, "No such job exists", "none"))
           ELSE IF Cardinality(MatchId(user, hid[1])) = 1
                THEN Continue(p, [r EXCEPT !.pc = "del_delete", !.hid = hid])
                ELSE End(p, APIError(r, 404, "No such job exists", "none"))
    /\ UNCHANGED <<es, topic, now, offset, created, deleted>>

\* Line 183: the search raises, and deljob catches nothing.
DeljobSearchFails(p, user, jobid) ==
    /\ Receive(p)
    /\ Len(decode(user, jobid)) # 0
    /\ End(p, Uncaught(Request("deljob", user, NoData, <<jobid>>), "es"))
    /\ UNCHANGED <<es, topic, now, offset, created, deleted>>

\* DeljobDelete without the test of res['found'].
DeljobDelete_Blind(p) ==
    /\ req[p].pc = "del_delete"
    /\ es' = es \ MatchId(req[p].user, req[p].hid[1])
    /\ deleted' = Append(deleted, <<req[p].user, req[p].hid[1]>>)
    /\ End(p, Answer(req[p], 200, "", <<>>, "none"))
    /\ UNCHANGED <<topic, now, started, offset, created>>

\* Lines 186-190: es.delete(index, doc_type=user, id=hid[0]) removes the
\* document with that id and reports whether it found one.
DeljobDelete(p) ==
    /\ req[p].pc = "del_delete"
    /\ LET found == MatchId(req[p].user, req[p].hid[1])
       IN  /\ es' = es \ found
           /\ IF found # {}
              THEN /\ End(p, Answer(req[p], 200, "", <<>>, "none"))
                   /\ deleted' = Append(deleted, <<req[p].user, req[p].hid[1]>>)
              ELSE /\ End(p, APIError(req[p], 502, "Deletion failed", "none"))
                   /\ UNCHANGED deleted
    /\ UNCHANGED <<topic, now, started, offset, created>>

\* Line 186: the delete raises, and deljob catches nothing.
DeljobDeleteFails(p) ==
    /\ req[p].pc = "del_delete"
    /\ End(p, Uncaught(req[p], "es"))
    /\ UNCHANGED <<es, topic, now, started, offset, created, deleted>>

\* ----------------------------------------------------------------- getjob
\* f.lower() on the filters a client sends.
lower(f) ==
    CASE f = "QUEUED" -> "queued"
      [] f = "Finished" -> "finished"
      [] OTHER -> f

\* The path after /v1/jobs/<user>: nothing, a status or a token.
Filters == {<<>>, <<"QUEUED">>, <<"Finished">>}
           \cup {<<t>> : t \in Tokens}

\* Lines 65-83: the key of the search, "" when the token decodes to nothing.
Key(user, filter) ==
    IF Len(filter) > 0
    THEN IF lower(filter[1]) \in STATUS_values THEN "status"
         ELSE IF Len(decode(user, filter[1])) = 0 THEN "" ELSE "id"
    ELSE "status"

\* The hits of the search of lines 85-88.
Records(user, filter) ==
    CASE Key(user, filter) = "id" -> MatchId(user, decode(user, filter[1])[1])
      [] Len(filter) = 0 -> Wildcard(user)
      [] OTHER -> MatchStatus(user, lower(filter[1]))

\* rec.pop('id') (line 95): the document without its id.
PopId(rec) == [k \in DOMAIN rec \ {"id"} |-> rec[k]]

\* Lines 98-105: one entry per record, keyed by its token.
Jobs(user, records) ==
    [jobid \in {encode(user, rec.id) : rec \in records} |->
        LET rec == CHOOSE x \in records : encode(user, x.id) = jobid
        IN  [jobid |-> jobid, created |-> rec.timestamp, desc |-> rec.desc]]

\* GET /v1/jobs/<user>[/<filter>], lines 62-105: the path is split, the
\* search returns and the result is built.
Getjob(p, user, filter) ==
    /\ Receive(p)
    /\ LET r       == Request("getjob", user, NoData, filter)
           records == Records(user, filter)
       IN  IF Key(user, filter) = ""
           THEN End(p, APIError(r, 404, "No such job exists", "none"))
           ELSE IF records = {}
                THEN End(p, APIError(r, 404, "No such job exists", "none"))
                ELSE End(p, Answer(r, 200, "",
                            IF Key(user, filter) = "id"
                            THEN PopId(CHOOSE rec \in records : TRUE)
                            ELSE Jobs(user, records), "none"))
    /\ UNCHANGED <<es, topic, now, offset, created, deleted>>

\* Line 87: the search raises, and getjob catches nothing.
GetjobFails(p, user, filter) ==
    /\ Receive(p)
    /\ Key(user, filter) # ""
    /\ End(p, Uncaught(Request("getjob", user, NoData, filter), "es"))
    /\ UNCHANGED <<es, topic, now, offset, created, deleted>>

\* ------------------------------------------------------------------ worker
\* The external worker takes the next message of the topic and starts on the
\* job it names, if the store holds it.
WorkerConsume ==
    /\ offset < Len(topic)
    /\ offset' = offset + 1
    /\ es' = {IF kafkaid(d.user, d.id) = topic[offset + 1] /\ d.status = STATUS.Q
              THEN [d EXCEPT !.status = STATUS.P] ELSE d : d \in es}
    /\ response' = NoResponse
    /\ UNCHANGED <<topic, req, now, started, created, deleted>>

\* The worker finishes a job it is processing.
WorkerFinish ==
    /\ \E d \in es :
          /\ d.status = STATUS.P
          /\ es' = (es \ {d}) \cup {[d EXCEPT !.status = STATUS.F]}
    /\ response' = NoResponse
    /\ UNCHANGED <<topic, req, now, started, offset, created, deleted>>

\* ----------------------------------------------------------- the system
\* The job an earlier run of the server left behind.
FirstJob == NewJob("ann", 1, 1, BodyOf(Required), <<"q", 1>>, <<>>)

\* The server starts on an empty index and topic, or on those an earlier run
\* left with one job created and published.
Init ==
    /\ \/ es = {} /\ topic = <<>> /\ now = 0 /\ created = <<>>
       \/ /\ es = {FirstJob}
          /\ topic = <<kafkaid("ann", 1)>>
          /\ now = 1
          /\ created = <<FirstJob>>
    /\ req = [p \in Procs |-> Idle]
    /\ response = NoResponse
    /\ started = 0
    /\ offset = 0
    /\ deleted = <<>>

Handlers ==
    \E p \in Procs :
        \/ \E u \in Users, d \in Bodies :
              \/ AddjobReject(p, u, d)
              \/ AddjobSearch(p, u, d)
              \/ AddjobSearchFails(p, u, d)
        \/ AddjobCreate(p)
        \/ AddjobCreateFails(p)
        \/ AddjobProduce(p)
        \/ AddjobProduceFails(p)
        \/ \E u \in Users, t \in Tokens :
              \/ DeljobSearch(p, u, t)
              \/ DeljobSearchFails(p, u, t)
        \/ DeljobDelete(p)
        \/ DeljobDeleteFails(p)
        \/ \E u \in Users, f \in Filters :
              \/ Getjob(p, u, f)
              \/ GetjobFails(p, u, f)

Worker == WorkerConsume \/ WorkerFinish

Next == Handlers \/ Worker

Spec == Init /\ [][Next]_vars
\* ================================================================ claims
\* Slot p ends its request in this step.
Ends(p) == req[p].pc # "idle" /\ req'[p].pc = "idle"

\* The stored documents that are the job `job` (same user, id and creation
\* time), whatever their status has become.
StoredAs(job) ==
    {d \in es : d.user = job.user /\ d.id = job.id /\ d.timestamp = job.timestamp}

\* Number of messages of the topic equal to msg.
Produced(msg) == Cardinality({i \in 1..Len(topic) : topic[i] = msg})

\* Number of jobs es.create has accepted under (user, id).
Accepted(user, id) ==
    Cardinality({k \in 1..Len(created) : created[k].user = user /\ created[k].id = id})

\* Number of deljob requests that answered success for (user, id).
Deleted(user, id) ==
    Cardinality({k \in 1..Len(deleted) : deleted[k] = <<user, id>>})

\* C1: a message "<user>:<id>" is produced only after es.create accepted the
\* job (user, id): every message of the topic names a job that was created
\* before it, a pair (user, id) has no more messages than accepted creates,
\* and a request about to produce has had its job accepted.
C1_PublishedAfterCreate ==
    /\ \A i \in 1..Len(topic) :
          \E k \in 1..Len(created) :
             kafkaid(created[k].user, created[k].id) = topic[i]
    /\ \A k \in 1..Len(created) :
          Produced(kafkaid(created[k].user, created[k].id))
             <= Accepted(created[k].user, created[k].id)
    /\ \A p \in Procs :
          req[p].pc = "add_produce" =>
             \E k \in 1..Len(created) : created[k] = req[p].job

C1_Witness ==
    /\ response.op = "addjob"
    /\ response.code = 201
    /\ \E k \in 1..Len(created) :
          /\ created[k].timestamp = now
          /\ created[k].user = response.user
          /\ encode(created[k].user, created[k].id) = response.result.id
          /\ topic[Len(topic)] = kafkaid(created[k].user, created[k].id)

\* C2 (as claimed): when the create succeeded and the publish fails, the
\* request answers 502, the job stays stored as it is, with status queued,
\* and no message of the topic names its (user, id).
C2_StuckStep ==
    \A p \in Procs :
       (req[p].pc = "add_produce" /\ Ends(p) /\ response'.raised = "kafka") =>
          /\ response'.code = 502
          /\ es' = es
          /\ topic' = topic
          /\ \A d \in StoredAs(req[p].job) :
                /\ d.status = STATUS.Q
                /\ Produced(kafkaid(d.user, d.id)) = 0

C2_StuckJobHasNoMessage == [][C2_StuckStep]_vars

\* C3: when the max-id search or the create raises a store error, addjob
\* answers 503 (or 502) in that step, which leaves the index and the topic as
\* they were; the job of a request that has not passed its create is not
\* stored, so no getjob can show it.
C3_StoreErrorStep ==
    (response'.op = "addjob" /\ response'.raised = "es") =>
       /\ response'.code \in {502, 503}
       /\ es' = es
       /\ topic' = topic
       /\ created' = created
       /\ \A p \in Procs :
             Ends(p) => /\ req[p].pc = "add_create"
                        /\ StoredAs(req[p].job) = {}

C3_StoreErrorState ==
    \A p \in Procs :
       req[p].pc = "add_create" =>
          /\ StoredAs(req[p].job) = {}
          /\ \A k \in 1..Len(created) : created[k] # req[p].job

\* C3: the state and the step property together: a store error in addjob
\* answers 503/502, stores nothing and publishes nothing.
C3_StoreUnavailable == []C3_StoreErrorState /\ [][C3_StoreErrorStep]_vars

C3_Witness ==
    /\ response.op = "addjob"
    /\ response.raised = "es"
    /\ response.code = 503
    /\ \A p \in Procs : req[p].pc = "idle"
    /\ now > Len(created)
    /\ Wildcard(response.user) # {}

\* C4: no two stored jobs of a user have the same id or the same token; the
\* token an addjob returns with 201 decodes to the id of its job and, while
\* that job is stored, names no other stored job of the user; and a create
\* for an id the user's collection already holds ends the request in an
\* error, storing and publishing nothing.
C4_UniqueIds ==
    \A d1, d2 \in es :
       (d1.user = d2.user /\ d1 # d2) =>
          /\ d1.id # d2.id
          /\ encode(d1.user, d1.id) # encode(d2.user, d2.id)

C4_UniqueToken ==
    \A p \in Procs :
       (req[p].pc = "add_produce" /\ Ends(p) /\ response'.code = 201) =>
          /\ decode(req[p].user, response'.result.id) = <<req[p].job.id>>
          /\ StoredAs(req[p].job) # {} =>
                \A d \in es :
                   (d.user = req[p].user
                      /\ encode(d.user, d.id) = response'.result.id)
                   => d \in StoredAs(req[p].job)

C4_RefusedCreate ==
    \A p \in Procs :
       (req[p].pc = "add_create" /\ req'[p] # req[p]
          /\ \E d \in es : d.user = req[p].user /\ d.id = req[p].esid) =>
          /\ Ends(p)
          /\ response'.code \in {502, 503}
          /\ es' = es
          /\ topic' = topic

C5_IdsIncrease ==
    \A i, j \in 1..Len(created) :
       (i < j /\ created[i].user = created[j].user) => created[i].id < created[j].id

\* C6 (as claimed): with the store and the queue answering, an addjob whose
\* body holds client, host, desc and query returns 201 with a token that
\* decodes to the id of the job it stored, the job being queued with empty
\* notes, priority 0 and options empty unless given.
C6_CompleteBodyStep ==
    \A p \in Procs :
       (response'.op = "addjob" /\ Required \subseteq DOMAIN response'.data
          /\ response'.raised \notin {"es", "kafka"}) =>
          /\ response'.code = 201
          /\ Ends(p) =>
                /\ decode(req[p].user, response'.result.id) = <<req[p].job.id>>
                /\ response'.result.desc = req[p].data["desc"].v
                /\ response'.result.status = "queued"
                /\ \E k \in 1..Len(created) : created[k] = req[p].job
                /\ req[p].job.status = "queued"
                /\ req[p].job.notes = ""
                /\ req[p].job.priority = 0
                /\ ("options" \notin DOMAIN req[p].data => req[p].job.options = <<>>)

C6_CompleteBodyCreated == [][C6_CompleteBodyStep]_vars

\* C7: an addjob whose body lacks a required field answers 422 naming the
\* first field, in the order client, host, desc, query, that the body lacks,
\* and the request makes no store or queue call: it is answered in the step
\* that received it, with the index and the topic unchanged, and no slot
\* ever goes on with such a body.
C7_Rejected ==
    /\ (response.op = "addjob" /\ ~(Required \subseteq DOMAIN response.data)) =>
          /\ response.code = 422
          /\ \E i \in 1..4 :
                /\ reqfields[i] \notin DOMAIN response.data
                /\ \A j \in 1..(i - 1) : reqfields[j] \in DOMAIN response.data
                /\ response.message = "Missing required field: " \o reqfields[i]
    /\ \A p \in Procs :
          req[p].op = "addjob" => Required \subseteq DOMAIN req[p].data

C7_RejectedStep ==
    (response'.op = "addjob" /\ ~(Required \subseteq DOMAIN response'.data)) =>
       /\ started' = started + 1
       /\ req' = req
       /\ es' = es
       /\ topic' = topic

\* C7: 422 naming the first missing field, before any store or queue call.
C7_MissingField == []C7_Rejected /\ [][C7_RejectedStep]_vars

C7_Witness ==
    /\ response.op = "addjob"
    /\ DOMAIN response.data = {"client", "desc"}
    /\ response.message = "Missing required field: host"

\* C8: a stored job is deleted with success once: the deljob requests that
\* answered success for (user, id) are no more than the jobs created under
\* (user, id).  Step by step, when the store answers: a deljob that searches
\* after the job is gone answers 404, one that deletes a job that is there
\* answers with success and the job is gone, one that deletes a job that went
\* after its search answers 502.
C8_OneSuccess ==
    \A k \in 1..Len(deleted) :
       Deleted(deleted[k][1], deleted[k][2]) <= Accepted(deleted[k][1], deleted[k][2])

C8_SearchStep ==
    (response'.op = "deljob" /\ started' # started /\ response'.raised = "none") =>
       /\ response'.code = 404
       /\ es' = es
       /\ deleted' = deleted
       /\ \A d \in es :
             d.user = response'.user =>
                decode(response'.user, response'.path[1]) # <<d.id>>

C8_DeleteStep ==
    \A p \in Procs :
       /\ (req[p].pc = "idle" /\ req'[p].pc = "del_delete") =>
             /\ es' = es
             /\ \E d \in es : d.user = req'[p].user /\ d.id = req'[p].hid[1]
       /\ (req[p].pc = "del_delete" /\ Ends(p) /\ response'.raised = "none") =>
             LET there == {d \in es : d.user = req[p].user /\ d.id = req[p].hid[1]}
             IN  /\ there # {} =>
                       /\ response'.code = 200
                       /\ es' = es \ there
                       /\ deleted' = Append(deleted, <<req[p].user, req[p].hid[1]>>)
                 /\ there = {} =>
                       /\ response'.code = 502
                       /\ es' = es
                       /\ deleted' = deleted

\* C8: a job is deleted with success once; the other deljob answers 404 or 502.
C8_DeleteTwice == []C8_OneSuccess /\ [][C8_SearchStep /\ C8_DeleteStep]_vars

C8_Witness ==
    /\ response.op = "deljob"
    /\ response.code = 502
    /\ deleted = <<<<response.user, decode(response.user, response.path[1])[1]>>>>

\* C9: a getjob with no filter whose search returns answers 404 when the
\* user's collection is empty, and otherwise 200 with exactly one entry per
\* job stored for that user at that moment, keyed by the job's token: no
\* entry for another user's job or for a job no longer stored.
C9_ListStep ==
    (response'.op = "getjob" /\ response'.path = <<>> /\ response'.raised = "none") =>
       LET mine == {d \in es : d.user = response'.user}
           k    == Cardinality(mine)
       IN  /\ es' = es
           /\ k = 0 => response'.code = 404
           /\ k >= 1 =>
                /\ response'.code = 200
                /\ Cardinality(DOMAIN response'.result) = k
                /\ \A d \in mine :
                      /\ encode(d.user, d.id) \in DOMAIN response'.result
                      /\ response'.result[encode(d.user, d.id)] =
                            [jobid |-> encode(d.user, d.id),
                             created |-> d.timestamp, desc |-> d.desc]
                /\ \A t \in DOMAIN response'.result :
                      \E d \in mine : decode(response'.user, t) = <<d.id>>

\* C9: every step that answers an unfiltered getjob lists exactly the jobs
\* stored for the user.
C9_ListAll == [][C9_ListStep]_vars

C9_Witness ==
    /\ response.op = "getjob"
    /\ response.path = <<>>
    /\ response.code = 200
    /\ DOMAIN response.result = {encode(d.user, d.id) : d \in Wildcard(response.user)}
    /\ \E d \in es : d.user # response.user

\* C10: a step of a handler leaves every stored job as it is, but for the
\* one job an addjob adds, which is queued, and the one job a deljob removes,
\* which is the job its token names; a getjob step changes neither the index
\* nor the topic; a job's status changes only in steps of the worker.
C10_HandlerStep ==
    (req' # req \/ started' # started) =>
       /\ \A d \in es' :
             \/ d \in es
             \/ /\ d.status = "queued"
                /\ es' = es \cup {d}
                /\ \E p \in Procs :
                      /\ req[p].pc = "add_create" /\ req'[p].pc = "add_produce"
                      /\ d.user = req[p].user /\ d.id = req[p].esid
       /\ \A d \in es \ es' :
             /\ es' = es \ {d}
             /\ \E p \in Procs :
                   /\ req[p].pc = "del_delete" /\ Ends(p)
                   /\ d.user = req[p].user /\ d.id = req[p].hid[1]
       /\ response'.op = "getjob" => (es' = es /\ topic' = topic)
       /\ offset' = offset

C10_StatusStep ==
    (\E d \in es, e \in es' :
        /\ d.user = e.user /\ d.id = e.id /\ d.timestamp = e.timestamp
        /\ d.status # e.status)
    => (req' = req /\ started' = started /\ topic' = topic)

\* C10: every step keeps to the frame of its handler, and a status changes in
\* worker steps alone.
C10_HandlersKeepStatus == [][C10_HandlerStep /\ C10_StatusStep]_vars

C10_Witness ==
    /\ response.op = "deljob"
    /\ response.code = 200
    /\ \E d \in es : d.status # "queued"

====
